---- MODULE Spec2Model ----
(***************************************************************************)
(* Model of apollo-router's in-flight subgraph query de-duplication layer  *)
(* (plugins/traffic_shaping/deduplication.rs).                             *)
(*                                                                         *)
(* Every caller is a task running the future returned by                   *)
(* QueryDeduplicationService::call.  The tasks run on a multi-threaded     *)
(* executor, so the synchronous code between two awaits of one task is     *)
(* split at every point where it touches state that another task can see   *)
(* (the wait map, a watch channel, the oneshot drop signal).               *)
(*                                                                         *)
(* tokio::sync::watch is modelled by its documented behaviour: a channel   *)
(* holds a value and a version, send() stores the value and bumps the      *)
(* version unless no receiver is alive, changed() first compares the       *)
(* receiver's version with the channel's and only then looks at closure,   *)
(* and a cloned receiver inherits the version of the receiver it is        *)
(* cloned from.                                                            *)
(***************************************************************************)
EXTENDS Integers, Sequences, FiniteSets, TLC

\* ---- bounds -------------------------------------------------------------
NumTasks == 2
NumFingerprints == 2

Tasks == 1..NumTasks
Fingerprints == 1..NumFingerprints

\* OperationKind, as matched by call()
OperationKind == {"Query", "Mutation", "Subscription"}

NoSlot == 0
None == [tag |-> "None"]

\* ---- values -------------------------------------------------------------
\* Result<SubgraphResponse, BoxError>.  A response is its payload (the
\* number of the downstream invocation that produced it) and the context it
\* is bound to; an error is either the downstream's own error value or one
\* built from a String, and has a display string.
Ok(body, ctx) == [tag |-> "Ok", response |-> body, context |-> ctx]
Err(original, msg) == [tag |-> "Err", original |-> original, msg |-> msg]

\* e.to_string(): the display string of an error
to_string(e) == e.msg

\* String -> BoxError (.into()): a new error that only carries the text
string_into_error(s) == Err(FALSE, s)

\* what the downstream produces for invocation n made with context ctx
DownstreamOk(n, ctx) == Ok(n, ctx)
DownstreamErr(n) == Err(TRUE, <<"call", n>>)
ReadyErr == Err(TRUE, <<"ready", 0>>)

VARIABLES
    pc,          \* position of each task in call()/dedup()
    request,     \* the SubgraphRequest each task was called with
    wait_map,    \* fingerprint -> channel whose Receiver the map holds
    channels,    \* the watch channels created so far
    receiver,    \* follower: channel of the cloned Receiver it awaits
    tx,          \* leader: channel of the Sender it holds
    res,         \* leader: result of the downstream call
    cleanup,     \* per channel: state of the spawned cleanup task
    returned,    \* what the task's future resolved to
    invocations, \* log of downstream invocations
    source,      \* history: channel a follower took its result from
    resolved,    \* history: channels whose leader had returned when a
                 \* task called
    view,        \* history: where the other tasks were when a task last
                 \* registered
    locked,      \* holder of the wait map's MutexGuard, Free when unlocked
    poisoned,    \* whether the wait map's Mutex is poisoned
    retried,     \* history: whether a task, as a follower, has gone back to
                 \* the top of the loop
    telemetry,   \* a Condition, the request and response it is evaluated
                 \* on, and what its evaluations returned
    introspection \* the Introspection cache, its planner and the call of
                 \* execute in progress

\* the state of the components beside the de-duplication layer
aside == <<telemetry, introspection>>

\* the state of the de-duplication layer
deduplication ==
    <<pc, request, wait_map, channels, receiver, tx, res, cleanup, returned,
      invocations, source, resolved, view, locked, poisoned, retried>>

vars == <<pc, request, wait_map, channels, receiver, tx, res, cleanup,
          returned, invocations, source, resolved, view, locked, poisoned,
          retried, telemetry, introspection>>

\* the wait map's Mutex is unlocked
Free == 0

\* no Condition is configured
NoCondition == [pc |-> "none"]

\* capacity of the introspection cache
Capacity == 2

\* Introspection::with_capacity: an empty cache, a planner that was not
\* called yet, no call of execute in progress
with_capacity(capacity) ==
    [cache |-> <<>>, capacity |-> capacity, planner |-> 0,
     pc |-> "idle", query |-> 0, response |-> None]

NoRequest == [fp |-> 0, operation_kind |-> "Query", context |-> 0]

\* version a watch channel starts with; the Receiver stored in the wait map
\* never calls changed(), so it and all of its clones stay at this version
InitialVersion == 0

\* QueryDeduplicationService::new: no request yet, an empty wait map
new ==
    /\ pc = [t \in Tasks |-> "idle"]
    /\ request = [t \in Tasks |-> NoRequest]
    /\ wait_map = [f \in Fingerprints |-> NoSlot]
    /\ channels = <<>>
    /\ receiver = [t \in Tasks |-> NoSlot]
    /\ tx = [t \in Tasks |-> NoSlot]
    /\ res = [t \in Tasks |-> None]
    /\ cleanup = <<>>
    /\ returned = [t \in Tasks |-> None]
    /\ invocations = <<>>
    /\ source = [t \in Tasks |-> NoSlot]
    /\ resolved = [t \in Tasks |-> {}]
    /\ view = [t \in Tasks |-> [u \in Tasks |-> "-"]]
    /\ locked = Free
    /\ poisoned = FALSE
    /\ retried = [t \in Tasks |-> FALSE]

Init ==
    /\ new
    /\ telemetry = NoCondition
    /\ introspection = with_capacity(Capacity)

\* ---- watch channel ------------------------------------------------------
\* a channel whose initial None counts as a value not seen yet
new_channel_unseen(key, leader) ==
    [fp |-> key, leader |-> leader, value |-> None,
     version |-> InitialVersion + 1, closed |-> FALSE]

\* watch::channel(None)
new_channel(key, leader) ==
    [fp |-> key, leader |-> leader, value |-> None,
     version |-> InitialVersion, closed |-> FALSE]

\* number of live Receivers of channel s: the one in the wait map and the
\* clones held by waiting followers
receiver_count(s) ==
    (IF wait_map[channels[s].fp] = s THEN 1 ELSE 0)
    + Cardinality({t \in Tasks : receiver[t] = s})

\* a send that wakes the Receivers and stores nothing
send_without_value(ch, value, receivers) ==
    IF receivers = 0 THEN ch
    ELSE [ch EXCEPT !.version = ch.version + 1]

\* Sender::send: fails, storing nothing, when no Receiver is alive
send(ch, value, receivers) ==
    IF receivers = 0 THEN ch
    ELSE [ch EXCEPT !.value = value, !.version = ch.version + 1]

\* changed() that does not notice that the Sender is gone
changed_ignores_closed(ch, seen) ==
    IF ch.version # seen THEN "Ok" ELSE "Pending"

\* Receiver::changed(): "Ok" when a version not yet seen is there, "Err"
\* when the Sender is gone, "Pending" otherwise
changed(ch, seen) ==
    IF ch.version # seen THEN "Ok"
    ELSE IF ch.closed THEN "Err"
    ELSE "Pending"

\* a drop of the Sender that sends a failure when nothing was sent
drop_tx_sends_failure(chs, s) ==
    [chs EXCEPT ![s] =
        [@ EXCEPT !.closed = TRUE,
                  !.value = IF @ = None
                            THEN [tag |-> "Err", msg |-> <<"closed", 0>>]
                            ELSE @,
                  !.version = IF chs[s].value = None THEN @ + 1 ELSE @]]

\* dropping the Sender closes the channel
drop_tx(chs, s) == [chs EXCEPT ![s].closed = TRUE]

\* ---- get_or_insert_wait_map ---------------------------------------------
\* a lookup that does not compare keys: any entry of the map matches
get_mut_any_key(map, key) ==
    IF \E k \in DOMAIN map : map[k] # NoSlot
    THEN map[CHOOSE k \in DOMAIN map : map[k] # NoSlot]
    ELSE NoSlot

\* locked_wait_map.get_mut(key)
get_mut(map, key) == map[key]

\* get_or_insert_wait_map without the lookup: every caller gets a new channel
get_or_insert_no_lookup(map, key, fresh) ==
    [tag |-> "Ok", slot |-> fresh, map |-> [map EXCEPT ![key] = fresh]]

\* get_or_insert_wait_map, run under the wait map's lock: Err(receiver)
\* with a clone of the Receiver found under the key, or Ok(tx) for a new
\* channel whose Receiver is inserted under the key
get_or_insert_wait_map(map, key, fresh) ==
    IF get_mut(map, key) # NoSlot
    THEN [tag |-> "Err", slot |-> get_mut(map, key), map |-> map]
    ELSE [tag |-> "Ok", slot |-> fresh, map |-> [map EXCEPT ![key] = fresh]]

\* ---- the wait map's lock -------------------------------------------------
\* wait_map.lock(): Err when the Mutex is poisoned
lock(p) == IF p THEN "Err" ELSE "Ok"

\* the holder of the guard at the end of a critical section that keeps the
\* guard alive
keep_guard(holder) == holder

\* the holder of the guard at the end of a critical section: the guard was
\* dropped (drop(locked_wait_map), end of the match arm)
drop_guard(holder) == Free

\* history: at a registration under key, whether task u has returned, is a
\* leader for the same key whose downstream call has not completed, or
\* neither
position(key, u) ==
    IF pc[u] = "done" THEN "returned"
    ELSE IF /\ pc[u] \in {"ready_oneshot", "calling"}
            /\ request[u].fp = key
         THEN "inflight"
         ELSE "-"

\* dedup, top of the loop, for task t with a request of fingerprint key:
\* the match on get_or_insert_wait_map; a follower goes on to await
\* receiver.changed(); a leader goes on, without suspending, to spawn its
\* cleanup task, which awaits drop_sentinel, and to await the readiness of
\* the service
registration(t, key) ==
    /\ locked = Free
    /\ IF lock(poisoned) = "Err"
       THEN \* Err(_e) => panic!()
            /\ pc' = [pc EXCEPT ![t] = "panicked"]
            /\ UNCHANGED <<wait_map, channels, cleanup, tx, receiver, view,
                           locked>>
       ELSE /\ LET r == get_or_insert_wait_map(wait_map, key,
                                               Len(channels) + 1)
               IN /\ wait_map' = r.map
                  /\ IF r.tag = "Err"
                     THEN /\ receiver' = [receiver EXCEPT ![t] = r.slot]
                          /\ pc' = [pc EXCEPT ![t] = "changed"]
                          /\ UNCHANGED <<channels, cleanup, tx>>
                     ELSE /\ channels' = Append(channels,
                                                new_channel(key, t))
                          /\ cleanup' = Append(cleanup, "awaiting")
                          /\ tx' = [tx EXCEPT ![t] = r.slot]
                          /\ pc' = [pc EXCEPT ![t] = "ready_oneshot"]
                          /\ UNCHANGED receiver
            /\ view' = [view EXCEPT
                   ![t] = [u \in Tasks |-> position(key, u)]]
            /\ locked' = drop_guard(t)
    /\ UNCHANGED <<res, returned, source, poisoned, retried>>

\* dedup, back at the top of the loop after a continue
register(t) ==
    /\ pc[t] = "dedup"
    /\ registration(t, request[t].fp)
    /\ UNCHANGED <<request, invocations, resolved>>
    /\ UNCHANGED aside

\* ---- call ---------------------------------------------------------------
\* call() routing every request through dedup
is_dedup_any(kind) == TRUE

\* the test of call() that routes a request through dedup
is_dedup(kind) == kind = "Query"

\* the fingerprints of the requests made so far
Used == {request[u].fp : u \in {v \in Tasks : pc[v] # "idle"}}

\* QueryDeduplicationService::call and the first poll of the future it
\* returns, up to the first await: a query enters dedup, any other request
\* is handed to the downstream by service.oneshot(request).  Tasks are
\* numbered in the order in which they call, and fingerprints in the order
\* in which requests first carry them.
call(t) ==
    /\ pc[t] = "idle"
    /\ \A u \in Tasks : u < t => pc[u] # "idle"
    /\ \E f \in Fingerprints, k \in OperationKind :
          /\ \A g \in Fingerprints : g < f => g \in Used
          /\ request' = [request EXCEPT
                 ![t] = [fp |-> f, operation_kind |-> k, context |-> t]]
          /\ IF is_dedup(k)
             THEN /\ registration(t, f)
                  /\ UNCHANGED invocations
             ELSE /\ invocations' = Append(invocations,
                         [fp |-> f, by |-> t, slot |-> NoSlot])
                  /\ pc' = [pc EXCEPT ![t] = "oneshot_await"]
                  /\ UNCHANGED <<wait_map, channels, receiver, tx, res,
                                 cleanup, returned, source, view, locked,
                                 poisoned, retried>>
    /\ resolved' = [resolved EXCEPT ![t] =
           {s \in 1..Len(channels) :
               /\ pc[channels[s].leader] = "done"
               /\ res[channels[s].leader] # None}]
    /\ UNCHANGED aside

\* ---- follower -----------------------------------------------------------
\* follower_result handing on the shared response as it was published
follower_result_shared(value, context) ==
    IF value.tag = "Ok"
    THEN Ok(value.response, value.context)
    ELSE string_into_error(value.msg)

\* what a follower returns for a published value: the shared response
\* bound to its own request's context, or an error made from the string
follower_result(value, context) ==
    IF value.tag = "Ok"
    THEN Ok(value.response, context)
    ELSE string_into_error(value.msg)

\* a follower that returns an error when the Sender is gone
follower_closure_error(t) ==
    /\ pc[t] = "changed"
    /\ LET ch == channels[receiver[t]]
           c == changed(ch, InitialVersion)
       IN /\ c # "Pending"
          /\ IF c = "Ok" /\ ch.value # None
             THEN /\ returned' = [returned EXCEPT
                        ![t] = follower_result(ch.value, request[t].context)]
                  /\ source' = [source EXCEPT ![t] = receiver[t]]
                  /\ pc' = [pc EXCEPT ![t] = "done"]
                  /\ UNCHANGED retried
             ELSE IF c = "Err"
             THEN /\ returned' = [returned EXCEPT
                        ![t] = string_into_error(<<"closed", 0>>)]
                  /\ pc' = [pc EXCEPT ![t] = "done"]
                  /\ UNCHANGED <<source, retried>>
             ELSE /\ pc' = [pc EXCEPT ![t] = "dedup"]
                  /\ retried' = [retried EXCEPT ![t] = TRUE]
                  /\ UNCHANGED <<returned, source>>
    /\ receiver' = [receiver EXCEPT ![t] = NoSlot]
    /\ UNCHANGED <<request, wait_map, channels, tx, res, cleanup,
                   invocations, resolved, view, locked, poisoned>>
    /\ UNCHANGED aside

\* dedup, follower branch: receiver.changed().await completes
follower(t) ==
    /\ pc[t] = "changed"
    /\ LET ch == channels[receiver[t]]
           c == changed(ch, InitialVersion)
       IN /\ c # "Pending"
          /\ IF c = "Ok" /\ ch.value # None
             THEN /\ returned' = [returned EXCEPT
                        ![t] = follower_result(ch.value, request[t].context)]
                  /\ source' = [source EXCEPT ![t] = receiver[t]]
                  /\ pc' = [pc EXCEPT ![t] = "done"]
                  /\ UNCHANGED retried
             ELSE \* None => continue, Err(_) => continue
                  /\ pc' = [pc EXCEPT ![t] = "dedup"]
                  /\ retried' = [retried EXCEPT ![t] = TRUE]
                  /\ UNCHANGED <<returned, source>>
    /\ receiver' = [receiver EXCEPT ![t] = NoSlot]
    /\ UNCHANGED <<request, wait_map, channels, tx, res, cleanup,
                   invocations, resolved, view, locked, poisoned>>
    /\ UNCHANGED aside

\* ---- leader -------------------------------------------------------------
\* a drop of _drop_signal that the cleanup task never notices
drop_signal_lost(cl, s) == cl

\* dropping _drop_signal completes drop_sentinel in the cleanup task
drop_signal(cl, s) == [cl EXCEPT ![s] = "signalled"]

\* service.ready_oneshot().await is Ok: call(request) is issued
ready_ok(t) ==
    /\ pc[t] = "ready_oneshot"
    /\ invocations' = Append(invocations,
           [fp |-> request[t].fp, by |-> t, slot |-> tx[t]])
    /\ pc' = [pc EXCEPT ![t] = "calling"]
    /\ UNCHANGED <<request, wait_map, channels, receiver, tx, res, cleanup,
                   returned, source, resolved, view, locked, poisoned,
                   retried>>
    /\ UNCHANGED aside

\* service.ready_oneshot().await? is Err: dedup returns the error at once,
\* dropping _drop_signal and tx
ready_err(t) ==
    /\ pc[t] = "ready_oneshot"
    /\ returned' = [returned EXCEPT ![t] = ReadyErr]
    /\ cleanup' = drop_signal(cleanup, tx[t])
    /\ channels' = drop_tx(channels, tx[t])
    /\ tx' = [tx EXCEPT ![t] = NoSlot]
    /\ pc' = [pc EXCEPT ![t] = "done"]
    /\ UNCHANGED <<request, wait_map, receiver, res, invocations, source,
                   resolved, view, locked, poisoned,
                   retried>>
    /\ UNCHANGED aside

\* number of the invocation task t has issued
invocation_of(t) ==
    CHOOSE n \in 1..Len(invocations) : invocations[n].by = t

\* .call(request).await completes with the downstream's result; the block
\* ends and _drop_signal is dropped
call_returns(t) ==
    /\ pc[t] = "calling"
    /\ \E r \in {DownstreamOk(invocation_of(t), request[t].context),
                 DownstreamErr(invocation_of(t))} :
          res' = [res EXCEPT ![t] = r]
    /\ cleanup' = drop_signal(cleanup, tx[t])
    /\ pc' = [pc EXCEPT ![t] = "send"]
    /\ UNCHANGED <<request, wait_map, channels, receiver, tx, returned,
                   invocations, source, resolved, view, locked, poisoned,
                   retried>>
    /\ UNCHANGED aside

\* CloneSubgraphResponse::clone: a new response built from the shared one,
\* with a clone of its context
clone(response) == Ok(response.response, response.context)

\* broadcast_value with a fixed text in place of the error's display string
broadcast_value_opaque(r) ==
    IF r.tag = "Ok" THEN clone(r)
    ELSE [tag |-> "Err", msg |-> <<"call", 0>>]

\* broadcast_value: a clone of the response, or the error's display string
broadcast_value(r) ==
    IF r.tag = "Ok" THEN clone(r)
    ELSE [tag |-> "Err", msg |-> to_string(r)]

\* publish that only sends a successful response
publish_ok_only(t) ==
    /\ pc[t] = "send"
    /\ channels' = [channels EXCEPT ![tx[t]] =
           IF res[t].tag = "Ok"
           THEN send(channels[tx[t]], broadcast_value(res[t]),
                     receiver_count(tx[t]))
           ELSE channels[tx[t]]]
    /\ pc' = [pc EXCEPT ![t] = "return"]
    /\ UNCHANGED <<request, wait_map, receiver, tx, res, cleanup, returned,
                   invocations, source, resolved, view, locked, poisoned,
                   retried>>
    /\ UNCHANGED aside

\* tx.send(Some(broadcast_value)), its result ignored
publish(t) ==
    /\ pc[t] = "send"
    /\ channels' = [channels EXCEPT ![tx[t]] =
           send(channels[tx[t]], broadcast_value(res[t]),
                receiver_count(tx[t]))]
    /\ pc' = [pc EXCEPT ![t] = "return"]
    /\ UNCHANGED <<request, wait_map, receiver, tx, res, cleanup, returned,
                   invocations, source, resolved, view, locked, poisoned,
                   retried>>
    /\ UNCHANGED aside

\* leader_result returning what was broadcast instead of res
leader_result_downgraded(r, context) ==
    IF r.tag = "Ok" THEN Ok(r.response, context)
    ELSE string_into_error(to_string(r))

\* the value the leader returns: its own res, the response bound to the
\* clone of its context taken before the call
leader_result(r, context) ==
    IF r.tag = "Ok" THEN Ok(r.response, context) ELSE r

\* return res.map(..): tx is dropped
leader_return(t) ==
    /\ pc[t] = "return"
    /\ returned' = [returned EXCEPT
           ![t] = leader_result(res[t], request[t].context)]
    /\ channels' = drop_tx(channels, tx[t])
    /\ tx' = [tx EXCEPT ![t] = NoSlot]
    /\ pc' = [pc EXCEPT ![t] = "done"]
    /\ UNCHANGED <<request, wait_map, receiver, res, cleanup, invocations,
                   source, resolved, view, locked, poisoned,
                   retried>>
    /\ UNCHANGED aside

\* ---- cleanup task -------------------------------------------------------
\* a remove that leaves the entry in the map
remove_nothing(map, key) == map

\* locked_wait_map.remove(&http_request)
remove(map, key) == [map EXCEPT ![key] = NoSlot]

\* a cleanup task that does not await drop_sentinel
cleanup_task_eager(s) ==
    /\ cleanup[s] \in {"awaiting", "signalled"}
    /\ wait_map' = remove(wait_map, channels[s].fp)
    /\ cleanup' = [cleanup EXCEPT ![s] = "done"]
    /\ UNCHANGED <<pc, request, channels, receiver, tx, res, returned,
                   invocations, source, resolved, view, locked, poisoned,
                   retried>>
    /\ UNCHANGED aside

\* the task spawned by the leader of channel s, once drop_sentinel.await
\* has returned
cleanup_task(s) ==
    /\ cleanup[s] = "signalled"
    /\ locked = Free
    /\ IF lock(poisoned) = "Ok"
       THEN /\ wait_map' = remove(wait_map, channels[s].fp)
            /\ cleanup' = [cleanup EXCEPT ![s] = "done"]
       ELSE \* Err(_e) => {}
            /\ cleanup' = [cleanup EXCEPT ![s] = "swallowed"]
            /\ UNCHANGED wait_map
    /\ locked' = drop_guard(0 - s)
    /\ UNCHANGED <<pc, request, channels, receiver, tx, res, returned,
                   invocations, source, resolved, view, poisoned, retried>>
    /\ UNCHANGED aside

\* ---- requests that are not queries --------------------------------------
\* service.oneshot(request).await completes
oneshot_returns(t) ==
    /\ pc[t] = "oneshot_await"
    /\ \E r \in {DownstreamOk(invocation_of(t), request[t].context),
                 DownstreamErr(invocation_of(t))} :
          returned' = [returned EXCEPT ![t] = r]
    /\ pc' = [pc EXCEPT ![t] = "done"]
    /\ UNCHANGED <<request, wait_map, channels, receiver, tx, res, cleanup,
                   invocations, source, resolved, view, locked, poisoned,
                   retried>>
    /\ UNCHANGED aside

\* ---- cancellation -------------------------------------------------------
\* the positions at which a task is suspended in an await
Suspended == {"changed", "ready_oneshot", "calling", "oneshot_await"}

\* a cancellation that also retires the entry a follower awaits
cancel_retires(t) ==
    /\ pc[t] \in Suspended
    /\ pc' = [pc EXCEPT ![t] = "cancelled"]
    /\ receiver' = [receiver EXCEPT ![t] = NoSlot]
    /\ tx' = [tx EXCEPT ![t] = NoSlot]
    /\ IF tx[t] # NoSlot
       THEN /\ cleanup' = drop_signal(cleanup, tx[t])
            /\ channels' = drop_tx(channels, tx[t])
       ELSE UNCHANGED <<cleanup, channels>>
    /\ wait_map' = IF receiver[t] # NoSlot
                   THEN remove(wait_map, channels[receiver[t]].fp)
                   ELSE wait_map
    /\ UNCHANGED <<request, res, returned, invocations, source,
                   resolved, view, locked, poisoned,
                   retried>>
    /\ UNCHANGED aside

\* the task's future is dropped while suspended: its locals are dropped
cancel(t) ==
    /\ pc[t] \in Suspended
    /\ pc' = [pc EXCEPT ![t] = "cancelled"]
    /\ receiver' = [receiver EXCEPT ![t] = NoSlot]
    /\ tx' = [tx EXCEPT ![t] = NoSlot]
    /\ IF tx[t] # NoSlot
       THEN /\ cleanup' = drop_signal(cleanup, tx[t])
            /\ channels' = drop_tx(channels, tx[t])
       ELSE UNCHANGED <<cleanup, channels>>
    /\ UNCHANGED <<request, wait_map, res, returned, invocations, source,
                   resolved, view, locked, poisoned,
                   retried>>
    /\ UNCHANGED aside

\* ---- specification ------------------------------------------------------
Next ==
    \/ \E t \in Tasks : call(t)
    \/ \E t \in Tasks : register(t)
    \/ \E t \in Tasks : follower(t)
    \/ \E t \in Tasks : ready_ok(t)
    \/ \E t \in Tasks : ready_err(t)
    \/ \E t \in Tasks : call_returns(t)
    \/ \E t \in Tasks : publish(t)
    \/ \E t \in Tasks : leader_return(t)
    \/ \E s \in 1..Len(cleanup) : cleanup_task(s)
    \/ \E t \in Tasks : oneshot_returns(t)
    \/ \E t \in Tasks : cancel(t)

Spec == Init /\ [][Next]_vars

\* The coalescing path on its own: every request is a query.  Requests of
\* another kind share no state with it: they never touch the wait map, a
\* channel or a cleanup task.
call_query(t) == call(t) /\ request'[t].operation_kind = "Query"

QueryNext ==
    \/ \E t \in Tasks : call_query(t)
    \/ \E t \in Tasks : register(t)
    \/ \E t \in Tasks : follower(t)
    \/ \E t \in Tasks : ready_ok(t)
    \/ \E t \in Tasks : ready_err(t)
    \/ \E t \in Tasks : call_returns(t)
    \/ \E t \in Tasks : publish(t)
    \/ \E t \in Tasks : leader_return(t)
    \/ \E s \in 1..Len(cleanup) : cleanup_task(s)
    \/ \E t \in Tasks : cancel(t)

\* a step of dedup by task t; the position of t enables one kind of step
dedup(t) ==
    \/ register(t)
    \/ follower(t)
    \/ ready_ok(t) \/ ready_err(t)
    \/ call_returns(t)
    \/ publish(t)
    \/ leader_return(t)

\* The executor runs every task that can make progress, the spawned cleanup
\* tasks included, and the downstream answers the readiness wait and every
\* call; nothing obliges a caller to call or a task to be cancelled.
Fairness ==
    /\ \A t \in Tasks : WF_vars(dedup(t))
    /\ \A s \in 1..NumTasks :
          WF_vars(s <= Len(cleanup) /\ cleanup_task(s))

FairSpec == Init /\ [][QueryNext]_vars /\ Fairness

\* ---- a poisoned wait map -------------------------------------------------
\* A task panics inside the critical section of get_or_insert_wait_map, on
\* its first registration or on a later one: the guard is dropped while the
\* task unwinds, which poisons the Mutex, and the task is gone.
panic_while_locked(t) ==
    /\ locked = Free
    /\ lock(poisoned) = "Ok"
    /\ \/ /\ pc[t] = "dedup"
          /\ UNCHANGED request
       \/ /\ pc[t] = "idle"
          /\ \A u \in Tasks : u < t => pc[u] # "idle"
          /\ \E f \in Fingerprints :
                /\ \A g \in Fingerprints : g < f => g \in Used
                /\ request' = [request EXCEPT
                       ![t] = [fp |-> f, operation_kind |-> "Query",
                               context |-> t]]
    /\ poisoned' = TRUE
    /\ locked' = drop_guard(t)
    /\ pc' = [pc EXCEPT ![t] = "panicked"]
    /\ UNCHANGED <<wait_map, channels, receiver, tx, res, cleanup, returned,
                   invocations, source, resolved, view, retried>>
    /\ UNCHANGED aside

PoisonNext ==
    \/ Next
    \/ \E t \in Tasks : panic_while_locked(t)

PoisonSpec == Init /\ [][PoisonNext]_vars

\* ==== telemetry conditions (config_new/conditions.rs) =====================
\* longest list of sub-conditions of an All or an Any
MaxLen == 2

\* the i64 the tests use as values
I64 == {1, 2}

Some(v) == [tag |-> "Some", value |-> v]

\* AttributeValue::I64 and opentelemetry's Value::I64
AttributeValue(n) == [attribute |-> "I64", v |-> n]
Value(n) == [value |-> "I64", v |-> n]

\* AttributeValue -> Value (value.clone().into())
into_value(a) == [value |-> a.attribute, v |-> a.v]

\* Value -> AttributeValue (right.into(), left.into())
into_attribute(x) == [attribute |-> x.value, v |-> x.v]

\* SelectorOrValue<TestSelector>
SelectorOrValue ==
    {[tag |-> "Value", value |-> AttributeValue(n)] : n \in I64}
        \cup {[tag |-> "Selector"]}

\* Condition<T>
Eq(eq) == [tag |-> "Eq", eq |-> eq]
All(all) == [tag |-> "All", all |-> all]
\* (Condition::Any; Any is a name of the TLC module)
AnyOf(any) == [tag |-> "Any", any |-> any]
Not(not) == [tag |-> "Not", not |-> not]
True == [tag |-> "True"]
False == [tag |-> "False"]

\* TestSelector: Request = Response = Option<i64>
selector_on_request(req) ==
    IF req = None THEN None ELSE Some(Value(req.value))

selector_on_response(response) ==
    IF response = None THEN None ELSE Some(Value(response.value))

\* impl Selector for SelectorOrValue
on_request(sv, req) ==
    IF sv.tag = "Value" THEN Some(into_value(sv.value))
    ELSE selector_on_request(req)

on_response(sv, response) ==
    IF sv.tag = "Value" THEN Some(into_value(sv.value))
    ELSE selector_on_response(response)

\* Option::or_else
or_else(option, alternative) ==
    IF option = None THEN alternative ELSE option

\* a side of an Eq that asks the response before the request
side_response_first(sv, req, response) ==
    or_else(on_response(sv, response), on_request(sv, req))

\* evaluate, a side of an Eq:
\* eq[i].on_request(req).or_else(|| eq[i].on_response(response))
side(sv, req, response) ==
    or_else(on_request(sv, req), on_response(sv, response))

RECURSIVE evaluate(_, _, _)
RECURSIVE iter_all(_, _, _)
RECURSIVE iter_any(_, _, _)

\* all.iter().all(|c| c.evaluate(req, response))
iter_all(conds, req, response) ==
    IF conds = <<>> THEN TRUE
    ELSE IF evaluate(Head(conds), req, response)
         THEN iter_all(Tail(conds), req, response)
         ELSE FALSE

\* any.iter().any(|c| c.evaluate(req, response))
iter_any(conds, req, response) ==
    IF conds = <<>> THEN FALSE
    ELSE IF evaluate(Head(conds), req, response)
         THEN TRUE
         ELSE iter_any(Tail(conds), req, response)

\* Condition::evaluate
evaluate(self, req, response) ==
    CASE self.tag = "Eq" ->
            side(self.eq[1], req, response)
                = side(self.eq[2], req, response)
      [] self.tag = "All" -> iter_all(self.all, req, response)
      [] self.tag = "Any" -> iter_any(self.any, req, response)
      [] self.tag = "Not" -> ~evaluate(self.not, req, response)
      [] self.tag = "True" -> TRUE
      [] self.tag = "False" -> FALSE

\* the value evaluate_request returns and what it leaves in self
Returns(value, self) == [value |-> value, self |-> self]

\* evaluate_request, Condition::Eq
evaluate_request_eq(self, req) ==
    LET left == on_request(self.eq[1], req)
        right == on_request(self.eq[2], req)
    IN CASE left = None /\ right = None -> Returns(None, self)
         [] left = None /\ right # None ->
                Returns(None,
                        Eq(<<self.eq[1],
                             [tag |-> "Value",
                              value |-> into_attribute(right.value)]>>))
         [] left # None /\ right = None ->
                Returns(None,
                        Eq(<<[tag |-> "Value",
                              value |-> into_attribute(left.value)],
                             self.eq[2]>>))
         [] left # None /\ right # None ->
                IF left = right THEN Returns(Some(TRUE), True)
                ELSE Returns(Some(FALSE), self)

RECURSIVE evaluate_request(_, _)
RECURSIVE for_all(_, _, _)
RECURSIVE for_any(_, _, _)

\* evaluate_request, the loop of Condition::All over the conditions left,
\* response being the accumulator
for_all(conds, req, response) ==
    IF conds = <<>> THEN Returns(response, <<>>)
    ELSE LET cond == evaluate_request(Head(conds), req)
             acc == IF cond.value # None /\ response # None
                    THEN Some(cond.value.value /\ response.value)
                    ELSE None
             rest == for_all(Tail(conds), req, acc)
         IN Returns(rest.value, <<cond.self>> \o rest.self)

\* evaluate_request, the loop of Condition::Any
for_any(conds, req, response) ==
    IF conds = <<>> THEN Returns(response, <<>>)
    ELSE LET cond == evaluate_request(Head(conds), req)
             acc == IF cond.value # None /\ response # None
                    THEN Some(cond.value.value \/ response.value)
                    ELSE None
             rest == for_any(Tail(conds), req, acc)
         IN Returns(rest.value, <<cond.self>> \o rest.self)

\* Condition::evaluate_request
evaluate_request(self, req) ==
    CASE self.tag = "Eq" -> evaluate_request_eq(self, req)
      [] self.tag = "All" ->
            IF self.all = <<>> THEN Returns(Some(TRUE), self)
            ELSE LET loop == for_all(self.all, req, Some(TRUE))
                 IN Returns(loop.value, All(loop.self))
      [] self.tag = "Any" ->
            IF self.any = <<>> THEN Returns(Some(TRUE), self)
            ELSE LET loop == for_any(self.any, req, Some(FALSE))
                 IN Returns(loop.value, AnyOf(loop.self))
      [] self.tag = "Not" ->
            LET inner == evaluate_request(self.not, req)
            IN Returns(IF inner.value = None THEN None
                       ELSE Some(~inner.value.value),
                       Not(inner.self))
      [] self.tag = "True" -> Returns(Some(TRUE), self)
      [] self.tag = "False" -> Returns(Some(FALSE), self)

\* ---- evaluation of a configured condition -------------------------------
\* the lists of at most MaxLen elements of S
Lists(S) == UNION {[1..n -> S] : n \in 0..MaxLen}

\* the conditions without sub-condition
Leaves ==
    {True, False} \cup {Eq(<<l, r>>) : l \in SelectorOrValue,
                                      r \in SelectorOrValue}

\* the conditions made of the conditions of S
Composite(S) ==
    {Not(c) : c \in S}
        \cup {All(l) : l \in Lists(S)}
        \cup {AnyOf(l) : l \in Lists(S)}

\* the condition trees evaluated: leaves, conditions over leaves and over
\* empty lists, and their negations
Conditions ==
    LET inner == Leaves \cup {All(<<>>), AnyOf(<<>>)}
    IN Leaves \cup Composite(inner)
           \cup {Not(c) : c \in Composite(inner)}

\* TestSelector::Request and TestSelector::Response
Requests == {None} \cup {Some(n) : n \in I64}

\* a condition is configured, for any request and response
ConditionInit ==
    /\ new
    /\ introspection = with_capacity(Capacity)
    /\ telemetry \in
          {[pc |-> "configured", condition |-> c, request |-> req,
            response |-> rsp, evaluate |-> None, evaluate_request |-> None]
             : c \in Conditions, req \in Requests, rsp \in Requests}

\* condition.evaluate(&request, &response)
evaluate_call ==
    /\ telemetry.pc = "configured"
    /\ telemetry' =
          [telemetry EXCEPT
              !.pc = "evaluated",
              !.evaluate = Some(evaluate(telemetry.condition,
                                         telemetry.request,
                                         telemetry.response))]
    /\ UNCHANGED <<deduplication, introspection>>

\* condition.evaluate_request(&request), which rewrites the condition
evaluate_request_call ==
    /\ telemetry.pc = "evaluated"
    /\ LET r == evaluate_request(telemetry.condition, telemetry.request)
       IN telemetry' =
             [telemetry EXCEPT
                 !.pc = "request_evaluated",
                 !.evaluate_request = Some(r.value),
                 !.condition = r.self]
    /\ UNCHANGED <<deduplication, introspection>>

ConditionNext ==
    \/ evaluate_call
    \/ evaluate_request_call

ConditionSpec == ConditionInit /\ [][ConditionNext]_vars

\* ==== introspection cache (introspection.rs) ============================
\* number of distinct introspection queries, and of calls of the planner
NumQueries == 3
MaxIntrospections == 3

Queries == 1..NumQueries

\* CacheStorage::get: the value stored under the key, if any
get(cache, key) ==
    IF \E i \in 1..Len(cache) : cache[i].key = key
    THEN Some(cache[CHOOSE i \in 1..Len(cache) : cache[i].key = key].value)
    ELSE None

\* the cache without its entry number i
evict(cache, i) ==
    [j \in 1..(Len(cache) - 1) |-> IF j < i THEN cache[j] ELSE cache[j + 1]]

\* CacheStorage::insert: the value replaces the one stored under the key;
\* a new key takes the place of the entry victim when the cache is full
insert(cache, capacity, key, value, victim) ==
    IF \E i \in 1..Len(cache) : cache[i].key = key
    THEN [i \in 1..Len(cache) |->
             IF cache[i].key = key THEN [key |-> key, value |-> value]
             ELSE cache[i]]
    ELSE IF Len(cache) < capacity
         THEN Append(cache, [key |-> key, value |-> value])
         ELSE Append(evict(cache, victim), [key |-> key, value |-> value])

\* Result<Response, IntrospectionError>
IntrospectionOk(response) == [tag |-> "Ok", response |-> response]
IntrospectionError(message) == [tag |-> "Err", message |-> message]

\* Response::builder().data(..).build()
Response(data) == [data |-> data]

\* execute, past the cache: the planner is asked, and its answer, when it
\* is a result, is built into a response, cached and returned
introspect(query) ==
    /\ introspection.planner < MaxIntrospections
    /\ LET n == introspection.planner + 1
       IN \/ \* planner.introspect(query) is Err
             introspection' =
                [introspection EXCEPT
                    !.planner = n, !.pc = "returned", !.query = query,
                    !.response = IntrospectionError(
                        <<"cannot find the introspection response">>)]
          \/ \* response.into_result() is Err
             introspection' =
                [introspection EXCEPT
                    !.planner = n, !.pc = "returned", !.query = query,
                    !.response = IntrospectionError(
                        <<"introspection error : ", query, n>>)]
          \/ \E victim \in 1..introspection.capacity :
                introspection' =
                   [introspection EXCEPT
                       !.planner = n, !.pc = "returned", !.query = query,
                       !.cache = insert(@, introspection.capacity, query,
                                        Response(<<query, n>>), victim),
                       !.response = IntrospectionOk(Response(<<query, n>>))]

\* execute that does not look into the cache
execute_no_lookup(query) ==
    /\ introspect(query)
    /\ UNCHANGED <<deduplication, telemetry>>

\* Introspection::execute
execute(query) ==
    /\ LET cached == get(introspection.cache, query)
       IN IF cached # None
          THEN introspection' =
                  [introspection EXCEPT
                      !.pc = "returned", !.query = query,
                      !.response = IntrospectionOk(cached.value)]
          ELSE introspect(query)
    /\ UNCHANGED <<deduplication, telemetry>>

IntrospectionNext == \E query \in Queries : execute(query)

IntrospectionSpec == Init /\ [][IntrospectionNext]_vars

\* ---- vocabulary of the properties ---------------------------------------
IsQuery(t) == pc[t] # "idle" /\ request[t].operation_kind = "Query"

\* the downstream invocations issued by the tasks of G
InvocationsBy(G) == {n \in 1..Len(invocations) : invocations[n].by \in G}

\* what the downstream answered to invocation n (None while in flight)
Answer(n) ==
    IF invocations[n].slot = NoSlot
    THEN returned[invocations[n].by]
    ELSE res[invocations[n].by]

\* result r is equivalent to the answer to invocation n: the same payload,
\* or an error with the same display string
Equivalent(r, n) ==
    \/ /\ r.tag = "Ok" /\ Answer(n).tag = "Ok"
       /\ r.response = Answer(n).response
    \/ /\ r.tag = "Err" /\ Answer(n).tag = "Err"
       /\ to_string(r) = to_string(Answer(n))

\* the channels task t created as leader
Led(t) == {s \in 1..Len(channels) : channels[s].leader = t}

\* ---- C1 -----------------------------------------------------------------
\* the query requests made so far with fingerprint f
Group(f) == {t \in Tasks : IsQuery(t) /\ request[t].fp = f}

\* C1 as stated: when all the query requests of one fingerprint have
\* returned, none was cancelled or refused by the readiness wait, and each
\* of them registered while none of the others had returned, the downstream
\* was invoked once for all of them and each returned that invocation's
\* result.
C1_OverlappingCallersShareOneCall ==
    \A f \in Fingerprints :
        ( /\ Group(f) # {}
          /\ \A t \in Group(f) : pc[t] = "done" /\ returned[t] # ReadyErr
          /\ \A t, u \in Group(f) : view[t][u] # "returned" )
        => /\ Cardinality(InvocationsBy(Group(f))) = 1
           /\ \A t \in Group(f) : \A n \in InvocationsBy(Group(f)) :
                  Equivalent(returned[t], n)

\* C1, amended: a query request that registers while a leader of its
\* fingerprint has not yet completed its downstream call joins that
\* leader's channel and never becomes a leader next to it; when the leader's
\* call returned, the leader invoked the downstream once, and the leader
\* and every such request that returns, return a result equivalent to that
\* invocation's, without an invocation of their own.
C1_CallersDuringCallShareIt ==
    \A l \in Tasks :
        /\ \A t \in Tasks :
              (view[t][l] = "inflight" /\ pc[t] \notin {"dedup", "cancelled"})
              => /\ Led(t) = {}
                 /\ pc[t] = "changed" => receiver[t] \in Led(l)
                 /\ pc[t] = "done" =>
                       /\ source[t] \in Led(l)
                       /\ InvocationsBy({t}) = {}
                       /\ \A n \in InvocationsBy({l}) :
                              Equivalent(returned[t], n)
        /\ (IsQuery(l) /\ res[l] # None)
              => /\ Cardinality(InvocationsBy({l})) = 1
                 /\ pc[l] = "done" =>
                       \A n \in InvocationsBy({l}) : Equivalent(returned[l], n)

\* a follower that registered during the leader's call has returned the
\* leader's successful response, and the leader has returned too
C1_Witness ==
    \E l, t \in Tasks :
        /\ view[t][l] = "inflight"
        /\ pc[t] = "done" /\ pc[l] = "done"
        /\ returned[t].tag = "Ok" /\ returned[l].tag = "Ok"
        /\ returned[t].response = returned[l].response

\* ---- C2 -----------------------------------------------------------------
\* C2 as stated: a query request that calls the service after the leader of
\* a channel has published and returned never returns the outcome
\* published on that channel.
C2_NoResidualCaching ==
    \A t \in Tasks : source[t] # NoSlot => source[t] \notin resolved[t]

\* ---- C3 -----------------------------------------------------------------
\* task t awaits a channel whose leader was cancelled before publishing
AwaitsAbandoned(t) ==
    /\ pc[t] = "changed"
    /\ pc[channels[receiver[t]].leader] = "cancelled"
    /\ channels[receiver[t]].value = None

\* C3: a follower awaiting a channel whose leader was cancelled before
\* publishing does not wait forever: unless it is cancelled itself, it
\* returns a result, which is not the cancelled leader's.
C3_FollowerOfCancelledLeaderReturns ==
    \A t \in Tasks :
        AwaitsAbandoned(t) ~>
            \/ pc[t] = "cancelled"
            \/ /\ pc[t] = "done"
               /\ \A s \in {source[t]} \ {NoSlot} :
                     pc[channels[s].leader] # "cancelled"

\* a follower that registered during the call of a leader cancelled since
\* has observed the closure and is back at the top of the loop, while the
\* leader's entry is still in the wait map
C3_Witness ==
    \E t, l \in Tasks :
        /\ pc[l] = "cancelled" /\ Led(l) # {}
        /\ view[t][l] = "inflight"
        /\ pc[t] = "dedup"
        /\ wait_map[request[t].fp] \in Led(l)

\* ---- C4 -----------------------------------------------------------------
\* C4: every successful response dedup returns carries the context of the
\* request of the caller that receives it, for a follower and for a leader.
C4_ResponseCarriesOwnContext ==
    \A t \in Tasks :
        (IsQuery(t) /\ pc[t] = "done" /\ returned[t].tag = "Ok")
        => returned[t].context = request[t].context

\* a follower has returned a response whose published copy carries the
\* leader's context
C4_Witness ==
    \E t \in Tasks :
        /\ pc[t] = "done" /\ source[t] # NoSlot
        /\ returned[t].tag = "Ok"
        /\ channels[source[t]].value.context # request[t].context
        /\ channels[source[t]].value.response = returned[t].response

\* ---- C5 -----------------------------------------------------------------
IsBypass(t) == pc[t] # "idle" /\ request[t].operation_kind # "Query"

\* C5, in a state: a request that is not a query holds no Sender and no
\* Receiver, created no channel and took no result from one; once returned
\* it has invoked the downstream exactly once and returned that answer; a
\* returned query's result never comes from such an invocation.
C5_BypassState ==
    /\ \A t \in Tasks : IsBypass(t) =>
          /\ tx[t] = NoSlot /\ receiver[t] = NoSlot
          /\ Led(t) = {} /\ source[t] = NoSlot
          /\ pc[t] = "done" =>
                /\ Cardinality(InvocationsBy({t})) = 1
                /\ \A n \in InvocationsBy({t}) :
                      /\ invocations[n].slot = NoSlot
                      /\ returned[t] = Answer(n)
    /\ \A q \in Tasks :
          (IsQuery(q) /\ pc[q] = "done" /\ returned[q] # ReadyErr) =>
             \E n \in 1..Len(invocations) :
                /\ invocations[n].slot # NoSlot
                /\ Equivalent(returned[q], n)

\* C5, in a step: a step of a request that is not a query leaves the wait
\* map and the channels as they are.
C5_BypassStep ==
    \A t \in Tasks :
        (pc'[t] # pc[t] /\ request'[t].operation_kind # "Query")
        => UNCHANGED <<wait_map, channels, cleanup>>

\* C5: a request whose operation kind is not Query never coalesces.
C5_NonQueryNeverCoalesces == []C5_BypassState /\ [][C5_BypassStep]_vars

\* a mutation and a query of the same fingerprint have both returned, from
\* two invocations
C5_Witness ==
    \E q, m \in Tasks :
        /\ IsQuery(q) /\ IsBypass(m)
        /\ request[q].fp = request[m].fp
        /\ pc[q] = "done" /\ pc[m] = "done"
        /\ Cardinality(InvocationsBy({q, m})) = 2

\* ---- C6 -----------------------------------------------------------------
\* the other requests made so far all have another fingerprint than t's
AloneOnFingerprint(t) ==
    \A u \in Tasks \ {t} : pc[u] # "idle" => request[u].fp # request[t].fp

\* C6: a follower only ever awaits and takes results from a channel of its
\* own fingerprint, a returned result comes from an invocation made for the
\* caller's fingerprint, and a query whose fingerprint no other request
\* shares becomes the leader of its own channel and makes its own
\* invocation.
C6_DifferentFingerprintsNeverCoalesce ==
    \A t \in Tasks : IsQuery(t) =>
        /\ receiver[t] # NoSlot =>
              channels[receiver[t]].fp = request[t].fp
        /\ source[t] # NoSlot => channels[source[t]].fp = request[t].fp
        /\ \A s \in Led(t) : channels[s].fp = request[t].fp
        /\ (pc[t] = "done" /\ returned[t] # ReadyErr) =>
              \E n \in 1..Len(invocations) :
                 /\ invocations[n].fp = request[t].fp
                 /\ Equivalent(returned[t], n)
        /\ (AloneOnFingerprint(t) /\ pc[t] # "dedup") =>
              /\ Led(t) # {} /\ receiver[t] = NoSlot /\ source[t] = NoSlot
              /\ (pc[t] = "done" /\ returned[t] # ReadyErr) =>
                    \A n \in InvocationsBy({t}) : Equivalent(returned[t], n)

\* two queries with different fingerprints have both returned, each from
\* its own invocation, while both had been in the wait map together
C6_Witness ==
    \E t, u \in Tasks :
        /\ IsQuery(t) /\ IsQuery(u)
        /\ request[t].fp # request[u].fp
        /\ pc[t] = "done" /\ pc[u] = "done"
        /\ InvocationsBy({t}) # {} /\ InvocationsBy({u}) # {}
        /\ \A f \in Fingerprints : wait_map[f] # NoSlot

\* ---- C7 -----------------------------------------------------------------
\* C7 as stated: when a leader has returned an error, from the readiness
\* wait or from the downstream call, a follower awaiting its channel finds
\* a Failure published on it.
C7_EveryLeaderErrorIsPublished ==
    \A l, t \in Tasks : \A s \in Led(l) :
        (pc[l] = "done" /\ returned[l].tag = "Err"
           /\ pc[t] = "changed" /\ receiver[t] = s)
        => channels[s].value.tag = "Err"

\* C7, amended: an error of the downstream call is published as a Failure
\* carrying its display string before the leader returns it, for whoever
\* holds a Receiver of the channel; an error of the readiness wait is
\* returned without anything being published, and the channel stays
\* Pending and is closed.
C7_CallErrorIsPublished ==
    \A l \in Tasks : \A s \in Led(l) :
        /\ (pc[l] \in {"return", "done"} /\ res[l].tag = "Err"
              /\ receiver_count(s) > 0)
           => channels[s].value = [tag |-> "Err", msg |-> to_string(res[l])]
        /\ (pc[l] = "done" /\ res[l].tag = "Err") => returned[l] = res[l]
        /\ (pc[l] = "done" /\ returned[l] = ReadyErr)
           => channels[s].value = None /\ channels[s].closed

\* a follower awaits a channel on which a Failure is published, and the
\* leader has not returned yet
C7_Witness ==
    \E l, t \in Tasks : \E s \in Led(l) :
        /\ pc[l] = "return" /\ res[l].tag = "Err"
        /\ pc[t] = "changed" /\ receiver[t] = s
        /\ channels[s].value.tag = "Err"

\* ---- C8 -----------------------------------------------------------------
\* C8: when the leader's downstream call has failed, a follower awaiting
\* its channel finds the Failure there once the leader has sent, and a
\* follower that took its result from that channel has returned an error
\* with the display string of the leader's error, without invoking the
\* downstream.
C8_FollowersGetLeadersError ==
    \A l \in Tasks : \A s \in Led(l) : res[l].tag = "Err" =>
        \A t \in Tasks :
            /\ (pc[t] = "changed" /\ receiver[t] = s
                  /\ pc[l] \in {"return", "done"})
               => /\ changed(channels[s], InitialVersion) = "Ok"
                  /\ channels[s].value.tag = "Err"
            /\ source[t] = s
               => /\ returned[t].tag = "Err"
                  /\ to_string(returned[t]) = to_string(res[l])
                  /\ InvocationsBy({t}) = {}

\* a follower that registered during the leader's call has returned the
\* error of the leader's failed call
C8_Witness ==
    \E l, t \in Tasks : \E s \in Led(l) :
        /\ res[l].tag = "Err" /\ source[t] = s
        /\ view[t][l] = "inflight"
        /\ pc[t] = "done" /\ returned[t].tag = "Err"

\* ---- C9 -----------------------------------------------------------------
\* C9, in a state: a leader whose downstream call returned, returns the
\* downstream's own error value, or the downstream's response bound to its
\* own context, whether or not its send stored anything.
C9_LeaderResultState ==
    \A l \in Tasks : (pc[l] = "done" /\ res[l] # None) =>
        \A n \in InvocationsBy({l}) :
            \/ /\ res[l].tag = "Err"
               /\ returned[l] = DownstreamErr(n)
            \/ /\ res[l].tag = "Ok"
               /\ returned[l] = DownstreamOk(n, request[l].context)

\* C9, in a step: the leader's send leaves the wait map as it is.
C9_SendStep ==
    \A l \in Tasks :
        (pc[l] = "send" /\ pc'[l] = "return") => wait_map' = wait_map

\* C9: the leader returns the original result of its own downstream call.
C9_LeaderReturnsOriginal == []C9_LeaderResultState /\ [][C9_SendStep]_vars

\* a leader has returned the error of its call, and its send found no
\* Receiver alive
C9_Witness ==
    \E l \in Tasks : \E s \in Led(l) :
        /\ pc[l] = "done" /\ res[l].tag = "Err"
        /\ channels[s].value = None
        /\ returned[l].original

\* ---- C10 ----------------------------------------------------------------
\* the tasks awaiting the downstream call they issued as leader
InFlight(f) == {t \in Tasks : pc[t] = "calling" /\ request[t].fp = f}

\* C10: at most one downstream call issued by a leader is in flight per
\* fingerprint.
C10_OneCallInFlightPerFingerprint ==
    \A f \in Fingerprints : Cardinality(InFlight(f)) <= 1

\* a second leader of a fingerprint has its call in flight after the first
\* leader's call, while a cleanup task has run
C10_Witness ==
    \E f \in Fingerprints : \E t \in InFlight(f) :
        /\ \E n \in 1..Len(invocations) :
              /\ invocations[n].fp = f /\ invocations[n].slot # NoSlot
              /\ invocations[n].by # t
        /\ \E s \in 1..Len(cleanup) : cleanup[s] = "done"

\* ---- C11 ----------------------------------------------------------------
\* the leaders of fingerprint f that hold their Sender and have not sent on
\* it
Unpublished(f) ==
    {t \in Tasks : /\ tx[t] # NoSlot
                   /\ channels[tx[t]].fp = f
                   /\ pc[t] \in {"ready_oneshot", "calling", "send"}}

\* the leaders of fingerprint f that still hold _drop_signal: they await
\* the readiness of the downstream or their call
Executing(f) ==
    {t \in Tasks : /\ tx[t] # NoSlot
                   /\ channels[tx[t]].fp = f
                   /\ pc[t] \in {"ready_oneshot", "calling"}}

\* C11 as stated: there are never two leaders of one fingerprint that both
\* hold a Sender on which they have neither sent nor which they have
\* dropped.
C11_OneUnpublishedLeaderPerFingerprint ==
    \A f \in Fingerprints : Cardinality(Unpublished(f)) <= 1

\* C11 amended: there are never two leaders of one fingerprint that both
\* still await readiness or their downstream call, and the wait map's entry
\* for the fingerprint is the channel of the one that does.
C11_OneExecutingLeaderPerFingerprint ==
    \A f \in Fingerprints :
        /\ Cardinality(Executing(f)) <= 1
        /\ \A t \in Executing(f) : wait_map[f] = tx[t]

\* a leader whose call has completed has not sent yet, and a second leader
\* of the same fingerprint awaits its own call
C11_Witness ==
    \E f \in Fingerprints : \E t \in Executing(f) :
        \E u \in Unpublished(f) : u # t /\ pc[u] = "send" /\ pc[t] = "calling"

\* ---- C12 ----------------------------------------------------------------
\* the cleanup task of channel s has removed the entry from the wait map
Removed(s) == cleanup[s] = "done"

\* C12 as stated: the entry of a channel is removed only after its leader
\* has sent on it (or has returned), or was cancelled before sending.
C12_RemovedAfterPublishOrAbandon ==
    \A s \in 1..Len(channels) :
        Removed(s) =>
            \/ pc[channels[s].leader] \in {"return", "done"}
            \/ pc[channels[s].leader] = "cancelled"

\* C12 amended: the entry of a channel is removed only after its leader
\* has dropped _drop_signal: its downstream call has completed, the
\* readiness wait has failed, or it was cancelled.
C12_RemovedAfterDropSignal ==
    \A s \in 1..Len(channels) :
        cleanup[s] \in {"signalled", "done"} =>
            \/ pc[channels[s].leader] \in {"send", "return", "done"}
               /\ res[channels[s].leader] # None
            \/ pc[channels[s].leader] = "done"
               /\ returned[channels[s].leader] = ReadyErr
            \/ pc[channels[s].leader] = "cancelled"

\* the entry of a channel was removed while its leader, whose call has
\* completed, has not sent yet
C12_Witness ==
    \E s \in 1..Len(channels) :
        /\ Removed(s)
        /\ pc[channels[s].leader] = "send"
        /\ channels[s].value = None
        /\ wait_map[channels[s].fp] # s

\* ---- C13 ----------------------------------------------------------------
\* the leader of channel s has left dedup: it returned or was cancelled
Exited(s) ==
    /\ s <= Len(channels)
    /\ pc[channels[s].leader] \in {"done", "cancelled"}

\* the entry of channel s is no longer in the wait map, its cleanup task
\* has run
Retired(s) ==
    /\ s <= Len(channels)
    /\ Removed(s)
    /\ wait_map[channels[s].fp] # s

\* every request has terminated and every cleanup task has run
Quiescent ==
    /\ \A t \in Tasks : pc[t] \in {"done", "cancelled"}
    /\ \A s \in 1..Len(cleanup) : Removed(s)

\* an entry leaves the wait map only by the cleanup task of its channel
C13_RemovalStep ==
    \A f \in Fingerprints :
        (wait_map[f] # NoSlot /\ wait_map'[f] # wait_map[f]) =>
            /\ wait_map'[f] = NoSlot
            /\ cleanup[wait_map[f]] = "signalled"
            /\ cleanup'[wait_map[f]] = "done"

\* a cleanup task runs once, and removes the entry of its own channel
C13_OneRemoval ==
    \A s \in 1..Len(cleanup) :
        /\ Removed(s) => cleanup'[s] = cleanup[s]
        /\ (~Removed(s) /\ cleanup'[s] = "done") =>
              /\ wait_map[channels[s].fp] = s
              /\ wait_map'[channels[s].fp] = NoSlot

\* C13: whichever way a leader leaves dedup (return of a response, of the
\* downstream's error, of the readiness error, or cancellation), the entry
\* it inserted is eventually removed from the wait map, by one removal per
\* leader; once every request has terminated and every cleanup task has
\* run, the wait map is empty.
C13_SlotEventuallyRemovedOnce ==
    /\ \A s \in 1..NumTasks : Exited(s) ~> Retired(s)
    /\ [][C13_RemovalStep /\ C13_OneRemoval]_vars
    /\ [](Quiescent => \A f \in Fingerprints : wait_map[f] = NoSlot)

\* every request has terminated, one leader was cancelled and another
\* returned the readiness error, and both entries were removed
C13_Witness ==
    /\ Quiescent
    /\ \A f \in Fingerprints : wait_map[f] = NoSlot
    /\ \E s \in 1..Len(channels) :
          pc[channels[s].leader] = "cancelled" /\ Retired(s)
    /\ \E s \in 1..Len(channels) :
          returned[channels[s].leader] = ReadyErr /\ Retired(s)

\* ---- C14 ----------------------------------------------------------------
\* the leader of channel s is gone without having reached tx.send
Vanished(s) ==
    \/ pc[channels[s].leader] = "cancelled"
    \/ /\ pc[channels[s].leader] = "done"
       /\ returned[channels[s].leader] = ReadyErr

\* a channel holds None until one send stores the leader's broadcast value
C14_AtMostOneValue ==
    \A s \in 1..Len(channels) :
        /\ channels[s].version \in {InitialVersion, InitialVersion + 1}
        /\ channels[s].value = None <=> channels[s].version = InitialVersion
        /\ channels[s].value # None =>
              /\ pc[channels[s].leader] \in {"return", "done"}
              /\ res[channels[s].leader] # None
              /\ channels[s].value = broadcast_value(res[channels[s].leader])
        /\ Vanished(s) => channels[s].value = None

\* a value, once stored, is never replaced
C14_ValueStep ==
    \A s \in 1..Len(channels) :
        channels[s].value # None => channels'[s].value = channels[s].value

\* C14: the value of a channel goes from None to a sent value at most once
\* and never changes afterwards; the channel of a leader that vanished
\* holds None for ever.
C14_PublishedAtMostOnce == []C14_AtMostOneValue /\ [][C14_ValueStep]_vars

\* one channel holds the value its leader sent and has lost its Sender,
\* another was closed by a cancelled leader and holds None
C14_Witness ==
    /\ \E s \in 1..Len(channels) :
          /\ channels[s].value # None /\ channels[s].closed
          /\ pc[channels[s].leader] = "done"
    /\ \E s \in 1..Len(channels) :
          /\ pc[channels[s].leader] = "cancelled"
          /\ channels[s].closed /\ channels[s].value = None
          /\ Removed(s)

\* ---- C15 ----------------------------------------------------------------
\* the leader of channel s has executed tx.send
Sent(s) ==
    /\ pc[channels[s].leader] \in {"return", "done"}
    /\ res[channels[s].leader] # None

\* task t awaits channel s, on which it registered while the leader of s
\* had not sent
WaitsSince(t, s) ==
    /\ pc[t] = "changed"
    /\ receiver[t] = s
    /\ view[t][channels[s].leader] = "inflight"

\* a follower awaiting a channel waits until the leader has sent, and then
\* finds the leader's broadcast value, whether or not the Sender is gone
C15_FollowerFindsValue ==
    \A t \in Tasks : \A s \in {receiver[t]} \ {NoSlot} :
        pc[t] = "changed" =>
            /\ pc[channels[s].leader] \in {"ready_oneshot", "calling", "send"}
                  => changed(channels[s], InitialVersion) = "Pending"
            /\ Sent(s) =>
                  /\ changed(channels[s], InitialVersion) = "Ok"
                  /\ channels[s].value =
                         broadcast_value(res[channels[s].leader])

\* the step of a follower awaiting a channel whose leader has sent is the
\* return of the value the leader sent, bound to the follower's context
C15_FollowerStep ==
    \A t \in Tasks : \A s \in {receiver[t]} \ {NoSlot} :
        (pc[t] = "changed" /\ Sent(s) /\ pc'[t] \notin {"changed", "cancelled"})
            => /\ pc'[t] = "done"
               /\ source'[t] = s
               /\ returned'[t] =
                      follower_result(broadcast_value(res[channels[s].leader]),
                                      request[t].context)

\* C15: every follower that registered on a channel before its leader's
\* send and is not cancelled returns the one value the leader sent, though
\* the leader drops the Sender right after sending.
C15_FollowersReturnPublishedValue ==
    /\ []C15_FollowerFindsValue
    /\ [][C15_FollowerStep]_vars
    /\ \A t \in Tasks :
          (pc[t] = "changed" /\ \E s \in {receiver[t]} \ {NoSlot} : Sent(s))
              ~> (pc[t] \in {"done", "cancelled"})

\* a follower that registered during the leader's call still awaits the
\* channel after the leader has sent, returned and dropped the Sender
C15_Witness ==
    \E t \in Tasks : \E s \in 1..Len(channels) :
        /\ WaitsSince(t, s)
        /\ pc[channels[s].leader] = "done"
        /\ channels[s].closed
        /\ channels[s].value # None

\* ---- C16 ----------------------------------------------------------------
\* in this step task t obtains a handle on channel s from
\* get_or_insert_wait_map: a clone of its Receiver or its Sender
Obtains(t, s) ==
    \/ receiver[t] = NoSlot /\ receiver'[t] = s
    \/ tx[t] = NoSlot /\ tx'[t] = s

\* the channel a task obtains a handle on is not one whose entry was
\* removed: it is a new channel, of which the task holds the Sender, or the
\* channel in the wait map, newer than every removed one of its fingerprint
C16_Step ==
    \A t \in Tasks : \A s \in 1..Len(channels') :
        Obtains(t, s) =>
            /\ s <= Len(cleanup) => ~Removed(s)
            /\ \A r \in 1..Len(channels) :
                  (Removed(r) /\ channels[r].fp = channels'[s].fp) => r < s
            /\ wait_map'[channels'[s].fp] = s
            /\ \/ s = Len(channels) + 1 /\ tx'[t] = s
               \/ s <= Len(channels) /\ receiver'[t] = s
                  /\ wait_map[channels[s].fp] = s

\* C16: a registration that follows the removal of an entry never obtains a
\* handle on the removed channel: the task creates a new channel and
\* leads it, or joins a channel that was created after the removal.
C16_NeverObtainsRemovedSlot == [][C16_Step]_vars

\* after the removal of a cancelled leader's entry, another task has
\* registered and leads a new channel for the same fingerprint
C16_Witness ==
    \E t \in Tasks : \E r \in 1..Len(channels) :
        /\ Removed(r)
        /\ pc[channels[r].leader] = "cancelled"
        /\ tx[t] # NoSlot /\ tx[t] > r
        /\ channels[tx[t]].fp = channels[r].fp

\* ---- C17 ----------------------------------------------------------------
\* task t was cancelled while it awaited, as a follower, the channel of
\* leader l, on which it had registered during l's call
CancelledFollowerOf(t, l) ==
    /\ pc[t] = "cancelled"
    /\ Led(t) = {}
    /\ IsQuery(t)
    /\ view[t][l] = "inflight"

\* the cancellation of a follower changes nothing but the follower: the
\* wait map, the channels, the cleanup tasks and the other tasks are as
\* they were
C17_CancelStep ==
    \A t \in Tasks :
        (pc[t] = "changed" /\ pc'[t] = "cancelled") =>
            /\ wait_map' = wait_map
            /\ channels' = channels
            /\ cleanup' = cleanup
            /\ <<tx, res, returned, invocations, source>>'
                   = <<tx, res, returned, invocations, source>>
            /\ \A u \in Tasks \ {t} :
                  pc'[u] = pc[u] /\ receiver'[u] = receiver[u]

\* a leader one of whose followers was cancelled has made one downstream
\* call and, once returned, has returned the result of that call; a
\* follower of its channel that returned has returned what it sent
C17_LeaderUnaffected ==
    \A l \in Tasks :
        (\E t \in Tasks : CancelledFollowerOf(t, l)) =>
            /\ Cardinality(InvocationsBy({l})) <= 1
            /\ (pc[l] = "done" /\ res[l] # None) =>
                  returned[l] = leader_result(res[l], request[l].context)
            /\ \A u \in Tasks : \A s \in {source[u]} \ {NoSlot} :
                  channels[s].leader = l =>
                      returned[u] = follower_result(broadcast_value(res[l]),
                                                    request[u].context)

WasFollower(t) == retried[t] \/ source[t] # NoSlot \/ pc[t] = "changed"

\* task t has returned the error made from the failure sent on the channel
\* it awaited
ReturnedPublishedFailure(t) ==
    /\ source[t] # NoSlot
    /\ channels[source[t]].value # None
    /\ channels[source[t]].value.tag = "Err"
    /\ returned[t] = string_into_error(channels[source[t]].value.msg)

\* task t has returned the error of the downstream call it made as leader
ReturnedOwnCallError(t) ==
    /\ Led(t) # {}
    /\ res[t] # None
    /\ res[t].tag = "Err"
    /\ returned[t] = res[t]

\* task t has returned, as leader, the error of its readiness wait, without
\* having made a downstream call
ReturnedOwnReadinessError(t) ==
    /\ Led(t) # {}
    /\ res[t] = None
    /\ InvocationsBy({t}) = {}
    /\ returned[t] = ReadyErr

\* a follower that finds the Sender gone and no value returns nothing: it
\* goes back to the registration
C18_ClosureStep ==
    \A t \in Tasks : \A s \in {receiver[t]} \ {NoSlot} :
        (/\ pc[t] = "changed"
         /\ channels[s].value = None /\ channels[s].closed
         /\ pc'[t] # "changed")
            => /\ pc'[t] \in {"dedup", "cancelled"}
               /\ returned'[t] = None
               /\ source'[t] = NoSlot

\* C18 as stated: a follower never returns because of a closure, and the
\* only errors a follower returns are the failure sent on the channel it
\* awaited and the error of the downstream call it made as leader.
C18_ErrorsOnlyPublishedOrOwnCall ==
    /\ [][C18_ClosureStep]_vars
    /\ [](\A t \in Tasks :
             (WasFollower(t) /\ returned[t] # None /\ returned[t].tag = "Err")
                 => ReturnedPublishedFailure(t) \/ ReturnedOwnCallError(t))

\* C18 amended: a follower never returns because of a closure, and the
\* only errors a follower returns are the failure sent on the channel it
\* awaited, the error of the downstream call it made as leader, and the
\* error of the readiness wait that preceded that call.
C18_ErrorsOnlyPublishedOrOwn ==
    /\ [][C18_ClosureStep]_vars
    /\ [](\A t \in Tasks :
             (WasFollower(t) /\ returned[t] # None /\ returned[t].tag = "Err")
                 => \/ ReturnedPublishedFailure(t)
                    \/ ReturnedOwnCallError(t)
                    \/ ReturnedOwnReadinessError(t))

\* a follower found the Sender gone, registered again, became leader and
\* has returned the error of its own downstream call
C18_Witness ==
    \E t \in Tasks :
        /\ retried[t]
        /\ ReturnedOwnCallError(t)
        /\ \E r \in 1..Len(channels) :
              /\ r \notin Led(t)
              /\ channels[r].closed /\ channels[r].value = None
              /\ channels[r].fp = request[t].fp

\* ---- C19 ----------------------------------------------------------------
\* no suspended task holds the guard of the wait map: neither a task
\* awaiting readiness, its downstream call or a change of a channel, nor a
\* cleanup task awaiting drop_sentinel
C19_NoGuardWhileSuspended ==
    /\ \A t \in Tasks : pc[t] \in Suspended => locked # t
    /\ \A s \in 1..Len(cleanup) : cleanup[s] = "awaiting" => locked # 0 - s

\* a step that changes the wait map is one insert of a new channel under a
\* key that had no entry, or one remove of the entry of a key
C19_CriticalSectionStep ==
    wait_map' # wait_map =>
        \E f \in Fingerprints :
            /\ \A g \in Fingerprints \ {f} : wait_map'[g] = wait_map[g]
            /\ \/ wait_map[f] = NoSlot /\ wait_map'[f] = Len(channels) + 1
               \/ wait_map[f] # NoSlot /\ wait_map'[f] = NoSlot

\* C19: the lock of the wait map is never held across a suspension point,
\* and a critical section is a lookup, an insert or a remove.
C19_LockNeverHeldAcrossAwait ==
    []C19_NoGuardWhileSuspended /\ [][C19_CriticalSectionStep]_vars

\* after their critical sections a leader awaits its call and a follower
\* awaits the leader's channel, the cleanup task awaits drop_sentinel, and
\* the lock is free
C19_Witness ==
    \E l \in Tasks : \E t \in Tasks :
        /\ pc[l] = "calling" /\ tx[l] # NoSlot
        /\ cleanup[tx[l]] = "awaiting"
        /\ pc[t] = "changed" /\ receiver[t] = tx[l]
        /\ locked = Free

\* ---- C20 ----------------------------------------------------------------
\* the cleanup task of channel s found the Mutex poisoned and ended without
\* a panic and without removing the entry
Swallowed(s) == cleanup[s] = "swallowed"

\* C20: a poisoned Mutex is fatal wherever the lock is taken, in the
\* registration and in the cleanup task: no cleanup task that finds it
\* poisoned ends silently, leaving the entry of its channel in the wait map.
C20_PoisonNeverSwallowed ==
    \A s \in 1..Len(cleanup) :
        ~(Swallowed(s) /\ poisoned /\ wait_map[channels[s].fp] = s)

\* ---- C21 ----------------------------------------------------------------
\* the value a side of an Eq stands for: a constant, or what the selector
\* finds in the request, or else in the response, or else nothing
Resolved(sv, req, rsp) ==
    IF sv.tag = "Value" THEN Some(Value(sv.value.v))
    ELSE IF req # None THEN Some(Value(req.value))
    ELSE IF rsp # None THEN Some(Value(rsp.value))
    ELSE None

RECURSIVE Holds(_, _, _)

\* the boolean meaning of a condition tree
Holds(c, req, rsp) ==
    \/ c.tag = "True"
    \/ /\ c.tag = "Eq"
       /\ Resolved(c.eq[1], req, rsp) = Resolved(c.eq[2], req, rsp)
    \/ c.tag = "Not" /\ ~Holds(c.not, req, rsp)
    \/ /\ c.tag = "All"
       /\ \A i \in 1..Len(c.all) : Holds(c.all[i], req, rsp)
    \/ /\ c.tag = "Any"
       /\ \E i \in 1..Len(c.any) : Holds(c.any[i], req, rsp)

\* C21: evaluate returns the boolean meaning of the condition tree: Eq is
\* the equality of what its sides resolve to, from the request first and
\* from the response otherwise, Not the negation, All the conjunction, Any
\* the disjunction, True and False the constants.
C21_EvaluateIsMeaning ==
    telemetry.pc = "evaluated" =>
        telemetry.evaluate =
            Some(Holds(telemetry.condition, telemetry.request,
                       telemetry.response))

\* a conjunction of two comparisons was found true, the selector of the
\* first having found its value in the response only
C21_Witness ==
    /\ telemetry.pc = "evaluated"
    /\ telemetry.condition.tag = "All"
    /\ Len(telemetry.condition.all) = 2
    /\ telemetry.condition.all[1].tag = "Eq"
    /\ telemetry.condition.all[1].eq[1].tag = "Selector"
    /\ telemetry.condition.all[1].eq[2].tag = "Value"
    /\ telemetry.condition.all[2].tag = "Eq"
    /\ telemetry.request = None
    /\ telemetry.response # None
    /\ telemetry.evaluate = Some(TRUE)

\* ---- C22 ----------------------------------------------------------------
\* a call of execute for a query that the cache holds returns the cached
\* response, asks the planner nothing and leaves the cache as it was
C22_HitStep ==
    \A query \in Queries :
        (/\ introspection' # introspection
         /\ introspection'.query = query
         /\ get(introspection.cache, query) # None)
            => /\ introspection'.response =
                      IntrospectionOk(get(introspection.cache, query).value)
               /\ introspection'.planner = introspection.planner
               /\ introspection'.cache = introspection.cache

\* the response a call has returned is the one the cache holds for the
\* query
C22_ReturnedIsCached ==
    (introspection.pc = "returned" /\ introspection.response.tag = "Ok") =>
        get(introspection.cache, introspection.query)
            = Some(introspection.response.response)

\* C22: execute for a query present in the cache returns exactly the cached
\* response, without invoking the planner and without changing the cache.
C22_CachedQueryIsServedFromCache ==
    [][C22_HitStep]_vars /\ []C22_ReturnedIsCached

\* a call has returned a response that the planner produced before its
\* latest invocation: it was served from the cache
C22_Witness ==
    /\ introspection.pc = "returned"
    /\ introspection.response.tag = "Ok"
    /\ introspection.response.response.data[2] < introspection.planner
    /\ Len(introspection.cache) = introspection.capacity

\* ---- C23 ----------------------------------------------------------------
\* task t is inside dedup: at the top of the loop or at one of its awaits
\* or steps
InDedup(t) ==
    pc[t] \in {"dedup", "changed", "ready_oneshot", "calling", "send",
               "return"}

\* C23: every call of dedup eventually returns, unless the caller is
\* cancelled: no caller loops through the registration or waits for ever,
\* whatever the order of the leaders' completions and cancellations and of
\* the cleanup tasks.
C23_DedupTerminates ==
    \A t \in Tasks : InDedup(t) ~> (pc[t] \in {"done", "cancelled"})

\* a follower went back to the top of the loop after its leader was
\* cancelled, and has returned a response
C23_Witness ==
    \E t \in Tasks : \E l \in Tasks \ {t} :
        /\ retried[t]
        /\ pc[t] = "done"
        /\ returned[t].tag = "Ok"
        /\ pc[l] = "cancelled"
        /\ Led(l) # {}
        /\ request[l].fp = request[t].fp

\* ---- C24 ----------------------------------------------------------------
\* the step in which the cleanup task of channel s executes its remove
Removes(s) == cleanup[s] = "signalled" /\ cleanup'[s] = "done"

\* when a cleanup task removes, the entry under its key is the channel of
\* its own leader, no later leader has inserted a channel under that key,
\* and no other entry is touched
C24_Step ==
    \A s \in 1..Len(cleanup) :
        Removes(s) =>
            /\ wait_map[channels[s].fp] = s
            /\ \A r \in 1..Len(channels) :
                  channels[r].fp = channels[s].fp => r <= s
            /\ wait_map' = [wait_map EXCEPT ![channels[s].fp] = NoSlot]

\* C24: the cleanup task of a leader only ever removes the entry that this
\* leader inserted, never the entry of a later leader of the same
\* fingerprint.
C24_CleanupRemovesOwnSlot == [][C24_Step]_vars

\* two leaders of one fingerprint have followed one another, and each
\* one's cleanup task has removed an entry
C24_Witness ==
    \E s \in 1..Len(channels) : \E r \in 1..Len(channels) :
        /\ s < r
        /\ channels[s].fp = channels[r].fp
        /\ Removed(s) /\ Removed(r)
        /\ wait_map[channels[s].fp] = NoSlot

\* ---- C25 ----------------------------------------------------------------
\* receiver.changed().await of follower t completes with Ok
Notified(t) ==
    /\ pc[t] = "changed"
    /\ changed(channels[receiver[t]], InitialVersion) = "Ok"

\* a follower whose changed() is Ok finds Some(value) in the channel
C25_NotifiedFindsValue ==
    \A t \in Tasks : Notified(t) => channels[receiver[t]].value # None

\* a follower goes back to the top of the loop only from a changed() that
\* is Err, and a notified follower returns
C25_Step ==
    \A t \in Tasks :
        /\ (pc[t] = "changed" /\ pc'[t] = "dedup") =>
              changed(channels[receiver[t]], InitialVersion) = "Err"
        /\ (Notified(t) /\ pc'[t] \notin {"changed", "cancelled"}) =>
              pc'[t] = "done" /\ source'[t] = receiver[t]

\* C25: a follower never finds None after a changed() that is Ok: it
\* returns on its first notification, and the None => continue branch is
\* never taken.
C25_NeverPendingAfterNotification ==
    []C25_NotifiedFindsValue /\ [][C25_Step]_vars

\* a follower is notified of the failure its leader sent, the leader still
\* holding the Sender
C25_Witness ==
    \E t \in Tasks :
        /\ Notified(t)
        /\ channels[receiver[t]].value.tag = "Err"
        /\ ~channels[receiver[t]].closed

\* ---- C26 ----------------------------------------------------------------
\* evaluate_request has been applied to the condition that evaluate was
\* applied to, and has decided it
Decided ==
    /\ telemetry.pc = "request_evaluated"
    /\ telemetry.evaluate_request.value # None

\* C26: whenever evaluate_request(request) returns Some(b), evaluate(request,
\* response) on the condition as it was before the call returns b, for every
\* condition tree, request and response, empty All and empty Any included.
C26_PartialAgreesWithFull ==
    Decided => telemetry.evaluate_request.value.value = telemetry.evaluate.value

====
